---- MODULE Spec2Model ----
(***************************************************************************)
(* Model of programme_druide.py: the RPN evaluator evaluate_rpn, its       *)
(* helpers (is_number, the four operations, the OPERATORS table) and the   *)
(* per-line driver process_file.                                           *)
(*                                                                         *)
(* Strings are sequences of one-character strings, so that float(),        *)
(* str.strip() and str.split() are computed and not assumed.               *)
(* Floating-point values are modelled as fractions n/d in lowest terms     *)
(* (d > 0), with d = 0 for the non-finite values: 1/0 is inf, -1/0 is      *)
(* -inf and 0/0 is nan.  Rounding of IEEE-754 doubles and the sign of zero *)
(* are not represented; the literals used keep every result far from       *)
(* overflow.                                                               *)
(***************************************************************************)
EXTENDS Integers, Sequences, FiniteSets, TLC

\* one call of evaluate_rpn: its argument, loop index, stack, position, result
VARIABLES tokens, idx, stack, pc, outcome

\* a caller that evaluates again: the sequence it re-evaluates, the result of
\* its first evaluation, the number of calls made, how the evaluations of
\* other sequences made in between have ended
VARIABLES target, first, calls, between

\* process_file: the file, whether it exists, the verbose flag, the logger
\* level, the lines read so far, the results list, the position
VARIABLES file, exists, verbose, level, lineno, results, pf

evalVars == <<tokens, idx, stack, pc, outcome>>

callerVars == <<target, first, calls, between>>

\* calls of evaluate_rpn made side by side: for each worker the state of its
\* call (argument, loop index, its own stack, position, result)
VARIABLES workers

\* the records the logger has let through to its handler, and the lists
\* returned by the calls of process_file that have ended
VARIABLES log, earlier

fileVars == <<file, exists, verbose, level, lineno, results, pf>>

concVars == <<workers>>

logVars == <<log, earlier>>

vars == <<evalVars, callerVars, fileVars, concVars, logVars>>

(* ------------------------------ bounds --------------------------------- *)

\* longest token sequence over the whole alphabet
MaxLen == 4

\* longest token sequence over the literals and the non-commutative operators
MaxCoreLen == 5

\* longest token sequence that is evaluated again, and the number of calls
MaxRepeatLen == 3
MaxCalls == 4

\* most lines in a file
MaxLines == 3

\* longest token, in characters, whose classification is explored
MaxTokenLen == 3

\* longest token sequence whose termination is explored
MaxLiveLen == 3

\* number of calls of evaluate_rpn made side by side
NumWorkers == 2

\* most lines of a file whose evaluations are followed token by token
MaxLogLines == 2

\* most calls of process_file made one after another on the same file
MaxRuns == 2

(* ------------------------- floating-point values ------------------------ *)

Abs(x) == IF x < 0 THEN -x ELSE x

Sign(x) == IF x < 0 THEN -1 ELSE IF x > 0 THEN 1 ELSE 0

RECURSIVE Gcd(_, _)
Gcd(x, y) == IF y = 0 THEN x ELSE Gcd(y, x % y)

Float(n, d) ==
  IF d = 0 THEN [n |-> Sign(n), d |-> 0]
  ELSE LET g == Gcd(Abs(n), Abs(d))
           s == Sign(d)
       IN  [n |-> (s * n) \div g, d |-> (s * d) \div g]

Inf == [n |-> 1, d |-> 0]
NaN == [n |-> 0, d |-> 0]
Zero == [n |-> 0, d |-> 1]

IsNaN(x) == x.n = 0 /\ x.d = 0
IsInf(x) == x.n # 0 /\ x.d = 0
IsZero(x) == x.n = 0 /\ x.d # 0

FloatAdd(a, b) ==
  IF IsNaN(a) \/ IsNaN(b) THEN NaN
  ELSE IF IsInf(a) /\ IsInf(b) THEN (IF a.n = b.n THEN a ELSE NaN)
  ELSE IF IsInf(a) THEN a
  ELSE IF IsInf(b) THEN b
  ELSE Float(a.n * b.d + b.n * a.d, a.d * b.d)

FloatNeg(a) == [n |-> -a.n, d |-> a.d]

FloatMul(a, b) == Float(a.n * b.n, a.d * b.d)

\* a / b for b # 0
FloatDiv(a, b) ==
  IF IsNaN(a) \/ IsNaN(b) THEN NaN
  ELSE IF IsInf(b) THEN (IF IsInf(a) THEN NaN ELSE Zero)
  ELSE IF IsInf(a) THEN [n |-> a.n * Sign(b.n), d |-> 0]
  ELSE Float(a.n * b.d, a.d * b.n)

(* --------------------------- strings, float() --------------------------- *)

Whitespace == {" ", "\t", "\n"}

Digits == {"0", "1", "2", "3", "4", "5", "6", "7", "8", "9"}

DigitVal(c) ==
  CASE c = "0" -> 0 [] c = "1" -> 1 [] c = "2" -> 2 [] c = "3" -> 3
    [] c = "4" -> 4 [] c = "5" -> 5 [] c = "6" -> 6 [] c = "7" -> 7
    [] c = "8" -> 8 [] c = "9" -> 9

Lower(c) ==
  CASE c = "I" -> "i" [] c = "N" -> "n" [] c = "F" -> "f" [] c = "T" -> "t"
    [] c = "Y" -> "y" [] c = "A" -> "a" [] c = "E" -> "e" [] OTHER -> c

LowerStr(s) == [k \in 1..Len(s) |-> Lower(s[k])]

RECURSIVE LStrip(_)
LStrip(s) == IF s # <<>> /\ Head(s) \in Whitespace THEN LStrip(Tail(s)) ELSE s

RECURSIVE RStrip(_)
RStrip(s) ==
  IF s # <<>> /\ s[Len(s)] \in Whitespace
  THEN RStrip(SubSeq(s, 1, Len(s) - 1)) ELSE s

Strip(s) == RStrip(LStrip(s))

\* index of the first character of s that is in set cs, or 0
RECURSIVE FindFrom(_, _, _)
FindFrom(s, cs, k) ==
  IF k > Len(s) THEN 0 ELSE IF s[k] \in cs THEN k ELSE FindFrom(s, cs, k + 1)

Find(s, cs) == FindFrom(s, cs, 1)

\* a group of digits, single underscores allowed between two digits
IsDigitGroup(g) ==
  /\ g # <<>>
  /\ \A k \in 1..Len(g) : g[k] \in Digits \cup {"_"}
  /\ g[1] \in Digits /\ g[Len(g)] \in Digits
  /\ \A k \in 1..(Len(g) - 1) : ~(g[k] = "_" /\ g[k + 1] = "_")

RECURSIVE GroupVal(_, _)
GroupVal(g, acc) ==
  IF g = <<>> THEN acc
  ELSE IF Head(g) = "_" THEN GroupVal(Tail(g), acc)
  ELSE GroupVal(Tail(g), 10 * acc + DigitVal(Head(g)))

RECURSIVE GroupDigits(_)
GroupDigits(g) ==
  IF g = <<>> THEN 0
  ELSE (IF Head(g) = "_" THEN 0 ELSE 1) + GroupDigits(Tail(g))

RECURSIVE Pow10(_)
Pow10(k) == IF k = 0 THEN 1 ELSE 10 * Pow10(k - 1)

NotANumber == [ok |-> FALSE, v |-> NaN]

\* the exponent part after 'e': optional sign, then a group of digits
ParseExponent(e) ==
  LET signed == e # <<>> /\ e[1] \in {"+", "-"}
      body == IF signed THEN Tail(e) ELSE e
  IN  IF ~IsDigitGroup(body) THEN [ok |-> FALSE, v |-> 0]
      ELSE [ok |-> TRUE,
            v |-> (IF signed /\ e[1] = "-" THEN -1 ELSE 1) * GroupVal(body, 0)]

\* mantissa [exponent], unsigned: digits [. [digits]] | . digits
ParseDecimal(sgn, u) ==
  LET ePos == Find(u, {"e", "E"})
      mant == IF ePos = 0 THEN u ELSE SubSeq(u, 1, ePos - 1)
      ex == IF ePos = 0 THEN [ok |-> TRUE, v |-> 0]
            ELSE ParseExponent(SubSeq(u, ePos + 1, Len(u)))
      dot == Find(mant, {"."})
      ip == IF dot = 0 THEN mant ELSE SubSeq(mant, 1, dot - 1)
      fp == IF dot = 0 THEN <<>> ELSE SubSeq(mant, dot + 1, Len(mant))
      okMant == /\ ip # <<>> \/ fp # <<>>
                /\ ip = <<>> \/ IsDigitGroup(ip)
                /\ fp = <<>> \/ IsDigitGroup(fp)
  IN  IF ~(okMant /\ ex.ok) THEN NotANumber
      ELSE LET fl == GroupDigits(fp)
               m == GroupVal(ip, 0) * Pow10(fl) + GroupVal(fp, 0)
           IN  [ok |-> TRUE,
                v |-> Float(sgn * m * Pow10(IF ex.v > 0 THEN ex.v ELSE 0),
                            Pow10(fl) * Pow10(IF ex.v < 0 THEN -ex.v ELSE 0))]

\* a leading sign is not accepted
ParseFloat_Unsigned(token) ==
  LET u == Strip(token)
      l == LowerStr(u)
  IN  IF l = <<"i", "n", "f">> \/ l = <<"i", "n", "f", "i", "n", "i", "t", "y">>
      THEN [ok |-> TRUE, v |-> Inf]
      ELSE IF l = <<"n", "a", "n">> THEN [ok |-> TRUE, v |-> NaN]
      ELSE ParseDecimal(1, u)

\* float(token): surrounding whitespace stripped, optional sign, then
\* inf / infinity / nan in any case, or a decimal literal
ParseFloat(token) ==
  LET t == Strip(token)
      signed == t # <<>> /\ t[1] \in {"+", "-"}
      sgn == IF signed /\ t[1] = "-" THEN -1 ELSE 1
      u == IF signed THEN Tail(t) ELSE t
      l == LowerStr(u)
  IN  IF l = <<"i", "n", "f">> \/ l = <<"i", "n", "f", "i", "n", "i", "t", "y">>
      THEN [ok |-> TRUE, v |-> [n |-> sgn, d |-> 0]]
      ELSE IF l = <<"n", "a", "n">> THEN [ok |-> TRUE, v |-> NaN]
      ELSE ParseDecimal(sgn, u)

float(token) == ParseFloat(token).v

is_number(token) == ParseFloat(token).ok

(* ------------------------------ exceptions ------------------------------ *)

\* class -> base class (lines 16-27 and the built-in hierarchy)
BaseClass(cls) ==
  CASE cls = "InsufficientOperandsError" -> "RPNError"
    [] cls = "DivisionByZeroError" -> "RPNError"
    [] cls = "InvalidTokenError" -> "RPNError"
    [] cls = "RPNError" -> "Exception"
    [] cls = "ZeroDivisionError" -> "ArithmeticError"
    [] cls = "ArithmeticError" -> "Exception"
    [] cls = "IndexError" -> "LookupError"
    [] cls = "LookupError" -> "Exception"
    [] cls = "FileNotFoundError" -> "OSError"
    [] cls = "OSError" -> "Exception"
    [] OTHER -> "object"

RECURSIVE IsSubclass(_, _)
IsSubclass(cls, base) ==
  IF cls = base THEN TRUE
  ELSE IF cls = "object" THEN FALSE
  ELSE IsSubclass(BaseClass(cls), base)

\* An exception object: its class and its message.  The message is the
\* fixed text of the raise site plus the values interpolated into it.
Exc(cls, text, token, position, count, values) ==
  [cls |-> cls, text |-> text, token |-> token, position |-> position,
   count |-> count, values |-> values]

NoExc == Exc("None", "", <<>>, -1, 0, <<>>)

InsufficientOperandsError(token, position) ==
  Exc("InsufficientOperandsError", "Operateur sans operandes suffisants",
      token, position, 0, <<>>)

DivisionByZeroError ==
  Exc("DivisionByZeroError", "Division par zero", <<>>, -1, 0, <<>>)

\* the position reported one-based
InvalidTokenError_OneBased(token, position) ==
  Exc("InvalidTokenError", "Token invalide", token, position + 1, 0, <<>>)

InvalidTokenError(token, position) ==
  Exc("InvalidTokenError", "Token invalide", token, position, 0, <<>>)

EmptyExpressionError ==
  Exc("RPNError", "Expression vide ou resultat absent", <<>>, -1, 0, <<>>)

MalformedExpressionError(s) ==
  Exc("RPNError", "Expression mal formee", <<>>, -1, Len(s), s)

(* ------------------------------ operations ------------------------------ *)

Value(v) == [exc |-> NoExc, v |-> v]

Throw(e) == [exc |-> e, v |-> NaN]

op_add(a, b) == Value(FloatAdd(a, b))

\* the operands subtracted the wrong way round
op_subtract_Reversed(a, b) == Value(FloatAdd(b, FloatNeg(a)))

op_subtract(a, b) == Value(FloatAdd(a, FloatNeg(b)))

op_multiply(a, b) == Value(FloatMul(a, b))

\* op_divide without its zero test: Python's own division raises
op_divide_Unchecked(a, b) ==
  IF IsZero(b)
  THEN Throw(Exc("ZeroDivisionError", "float division by zero", <<>>, -1, 0, <<>>))
  ELSE Value(FloatDiv(a, b))

op_divide(a, b) ==
  IF IsZero(b) THEN Throw(DivisionByZeroError) ELSE Value(FloatDiv(a, b))

\* keys of the OPERATORS dictionary
OPERATORS == {<<"+">>, <<"-">>, <<"*">>, <<"/">>}

\* OPERATORS[token](a, b)
operator_func(token, a, b) ==
  CASE token = <<"+">> -> op_add(a, b)
    [] token = <<"-">> -> op_subtract(a, b)
    [] token = <<"*">> -> op_multiply(a, b)
    [] token = <<"/">> -> op_divide(a, b)

(* ----------------------------- evaluate_rpn ----------------------------- *)

\* no token is skipped
IsEmptyToken_Never(token) == FALSE

\* `not token`
IsEmptyToken(token) == token = <<>>

\* is_number branch: stack.append(float(token))
PushNumber(s, token) == [stack |-> Append(s, float(token)), exc |-> NoExc]

\* the operands handed to the operation in pop order (b, a)
ApplyOperator_Swapped(s, token, position) ==
  IF Len(s) < 2
  THEN [stack |-> s, exc |-> InsufficientOperandsError(token, position)]
  ELSE LET b == s[Len(s)]
           s1 == SubSeq(s, 1, Len(s) - 1)
           a == s1[Len(s1)]
           s2 == SubSeq(s1, 1, Len(s1) - 1)
           result == operator_func(token, b, a)
       IN  IF result.exc # NoExc
           THEN [stack |-> s2, exc |-> result.exc]
           ELSE [stack |-> Append(s2, result.v), exc |-> NoExc]

\* b popped before the operand count is checked
ApplyOperator_PopFirst(s, token, position) ==
  IF Len(s) = 0
  THEN [stack |-> s, exc |-> InsufficientOperandsError(token, position)]
  ELSE LET b == s[Len(s)]
           s1 == SubSeq(s, 1, Len(s) - 1)
       IN  IF Len(s1) < 1
           THEN [stack |-> s1, exc |-> InsufficientOperandsError(token, position)]
           ELSE LET a == s1[Len(s1)]
                    s2 == SubSeq(s1, 1, Len(s1) - 1)
                    result == operator_func(token, a, b)
                IN  IF result.exc # NoExc
                    THEN [stack |-> s2, exc |-> result.exc]
                    ELSE [stack |-> Append(s2, result.v), exc |-> NoExc]

\* no operand-count check: list.pop() on an empty list raises IndexError
ApplyOperator_Unchecked(s, token, position) ==
  IF Len(s) < 2
  THEN [stack |-> <<>>,
        exc |-> Exc("IndexError", "pop from empty list", <<>>, -1, 0, <<>>)]
  ELSE LET b == s[Len(s)]
           s1 == SubSeq(s, 1, Len(s) - 1)
           a == s1[Len(s1)]
           s2 == SubSeq(s1, 1, Len(s1) - 1)
           result == operator_func(token, a, b)
       IN  IF result.exc # NoExc
           THEN [stack |-> s2, exc |-> result.exc]
           ELSE [stack |-> Append(s2, result.v), exc |-> NoExc]

\* the result of the operation is not put back on the stack
ApplyOperator_NoAppend(s, token, position) ==
  IF Len(s) < 2
  THEN [stack |-> s, exc |-> InsufficientOperandsError(token, position)]
  ELSE LET b == s[Len(s)]
           s1 == SubSeq(s, 1, Len(s) - 1)
           a == s1[Len(s1)]
           s2 == SubSeq(s1, 1, Len(s1) - 1)
           result == operator_func(token, a, b)
       IN  [stack |-> s2, exc |-> result.exc]

\* the divisor on top of the stack is tested before the operands are counted
ApplyOperator_ZeroFirst(s, token, position) ==
  IF token = <<"/">> /\ Len(s) >= 1 /\ IsZero(s[Len(s)])
  THEN [stack |-> SubSeq(s, 1, Len(s) - 1), exc |-> DivisionByZeroError]
  ELSE IF Len(s) < 2
  THEN [stack |-> s, exc |-> InsufficientOperandsError(token, position)]
  ELSE LET b == s[Len(s)]
           s1 == SubSeq(s, 1, Len(s) - 1)
           a == s1[Len(s1)]
           s2 == SubSeq(s1, 1, Len(s1) - 1)
           result == operator_func(token, a, b)
       IN  IF result.exc # NoExc
           THEN [stack |-> s2, exc |-> result.exc]
           ELSE [stack |-> Append(s2, result.v), exc |-> NoExc]

\* operator branch: operand-count check, b popped first, then a
ApplyOperator(s, token, position) ==
  IF Len(s) < 2
  THEN [stack |-> s, exc |-> InsufficientOperandsError(token, position)]
  ELSE LET b == s[Len(s)]
           s1 == SubSeq(s, 1, Len(s) - 1)
           a == s1[Len(s1)]
           s2 == SubSeq(s1, 1, Len(s1) - 1)
           result == operator_func(token, a, b)
       IN  IF result.exc # NoExc
           THEN [stack |-> s2, exc |-> result.exc]
           ELSE [stack |-> Append(s2, result.v), exc |-> NoExc]

\* one iteration of `for idx, token in enumerate(tokens)`
LoopBody(s, position, token) ==
  IF IsEmptyToken(token) THEN [stack |-> s, exc |-> NoExc]
  ELSE IF is_number(token) THEN PushNumber(s, token)
  ELSE IF token \in OPERATORS THEN ApplyOperator(s, token, position)
  ELSE [stack |-> s, exc |-> InvalidTokenError(token, position)]

\* str(e): the message of an exception, without its class
Str(e) ==
  [text |-> e.text, token |-> e.token, position |-> e.position,
   count |-> e.count, values |-> e.values]

(* the logger: a record reaches the handler when its level is at least the
   level of the logger *)

LevelNo(lv) ==
  CASE lv = "DEBUG" -> 10
    [] lv = "INFO" -> 20
    [] lv = "ERROR" -> 40

isEnabledFor(lv, msgLevel) == LevelNo(msgLevel) >= LevelNo(lv)

\* a record: its level, the fixed part of its text and the values formatted
\* into it
LogRecord(msgLevel, text, token, values, s, i, e) ==
  [level |-> msgLevel, text |-> text, token |-> token, values |-> values,
   stack |-> s, line |-> i, msg |-> Str(e)]

\* logger.debug / logger.info / logger.error called once per record, in order
Emit(lv, out, records) ==
  out \o SelectSeq(records, LAMBDA r : isEnabledFor(lv, r.level))

\* the arguments of the logger.debug calls of one iteration, formatted
\* whatever the level is
DebugRecords(s, token) ==
  IF IsEmptyToken(token) THEN <<>>
  ELSE IF is_number(token)
  THEN << LogRecord("DEBUG", "push", <<>>, <<float(token)>>,
                    Append(s, float(token)), 0, NoExc) >>
  ELSE IF token \in OPERATORS /\ Len(s) >= 2
  THEN LET b == s[Len(s)]
           a == s[Len(s) - 1]
           s2 == SubSeq(s, 1, Len(s) - 2)
           result == operator_func(token, a, b)
       IN  << LogRecord("DEBUG", "pop", token, <<b, a>>, <<>>, 0, NoExc) >>
           \o (IF result.exc # NoExc THEN <<>>
               ELSE << LogRecord("DEBUG", "push result", <<>>, <<result.v>>,
                                 Append(s2, result.v), 0, NoExc) >>)
  ELSE <<>>

Running == [status |-> "running", value |-> NaN, exc |-> NoExc]

Returned(v) == [status |-> "returned", value |-> v, exc |-> NoExc]

Raised(e) == [status |-> "raised", value |-> NaN, exc |-> e]

\* no check for left-over values: the top of the stack is returned
Finalize_Top(s) ==
  IF Len(s) = 0 THEN Raised(EmptyExpressionError)
  ELSE Returned(s[Len(s)])

\* the checks after the loop
Finalize(s) ==
  IF Len(s) = 0 THEN Raised(EmptyExpressionError)
  ELSE IF Len(s) > 1 THEN Raised(MalformedExpressionError(s))
  ELSE Returned(s[1])

\* evaluate_rpn as a function of its argument
RECURSIVE RunFrom(_, _, _)
RunFrom(ts, position, s) ==
  IF position = Len(ts) THEN Finalize(s)
  ELSE LET r == LoopBody(s, position, ts[position + 1])
       IN  IF r.exc # NoExc THEN Raised(r.exc)
           ELSE RunFrom(ts, position + 1, r.stack)

evaluate_rpn(ts) == RunFrom(ts, 0, <<>>)

\* the logger.debug calls of a whole call of evaluate_rpn
RECURSIVE DebugTraceFrom(_, _, _)
DebugTraceFrom(ts, position, s) ==
  IF position = Len(ts) THEN <<>>
  ELSE LET r == LoopBody(s, position, ts[position + 1])
       IN  DebugRecords(s, ts[position + 1])
           \o (IF r.exc # NoExc THEN <<>>
               ELSE DebugTraceFrom(ts, position + 1, r.stack))

DebugTrace(ts) == DebugTraceFrom(ts, 0, <<>>)

(* ------------------------- one call, step by step ----------------------- *)

TokenAlphabet ==
  { <<>>, <<"0">>, <<"2">>, <<"+">>, <<"-">>, <<"*">>, <<"/">>, <<"&">>,
    <<"i", "n", "f">> }

CoreAlphabet == { <<"0">>, <<"2">>, <<"3">>, <<"-">>, <<"/">> }

SeqsUpTo(S, n) == UNION {[1..k -> S] : k \in 0..n}

TokenSeqs ==
  SeqsUpTo(TokenAlphabet, MaxLen) \cup SeqsUpTo(CoreAlphabet, MaxCoreLen)

\* the caller and process_file at rest
CallerIdle == target = <<>> /\ first = Running /\ calls = 1 /\ between = {}

FileIdle ==
  /\ file = <<>> /\ exists = TRUE /\ verbose = FALSE /\ level = "INFO"
  /\ lineno = 0 /\ results = <<>> /\ pf = "idle"

\* no call made side by side
NoWorkers == workers = <<>>

\* nothing logged, no call of process_file ended
LogIdle == log = <<>> /\ earlier = <<>>

Init ==
  /\ tokens \in TokenSeqs
  /\ idx = 0
  /\ stack = <<>>
  /\ pc = "loop"
  /\ outcome = Running
  /\ CallerIdle
  /\ FileIdle
  /\ NoWorkers
  /\ LogIdle

InLoop == pc = "loop" /\ idx < Len(tokens)

\* an error is recorded and the scan goes on with the next token
Iterate_Continue ==
  LET r == LoopBody(stack, idx, tokens[idx + 1])
  IN  /\ stack' = r.stack
      /\ idx' = idx + 1
      /\ pc' = "loop"
      /\ outcome' = IF r.exc = NoExc THEN outcome ELSE Raised(r.exc)
      /\ log' = Emit(level, log, DebugRecords(stack, tokens[idx + 1]))
      /\ UNCHANGED <<tokens, callerVars, fileVars, concVars, earlier>>

\* a skipped token does not move the scan to the next token
Iterate_NoAdvance ==
  LET r == LoopBody(stack, idx, tokens[idx + 1])
  IN  /\ stack' = r.stack
      /\ IF r.exc = NoExc
         THEN /\ idx' = IF IsEmptyToken(tokens[idx + 1]) THEN idx ELSE idx + 1
              /\ pc' = "loop" /\ outcome' = outcome
         ELSE idx' = idx /\ pc' = "done" /\ outcome' = Raised(r.exc)
      /\ log' = Emit(level, log, DebugRecords(stack, tokens[idx + 1]))
      /\ UNCHANGED <<tokens, callerVars, fileVars, concVars, earlier>>

\* with DEBUG let through, the debug call takes the value it shows off the
\* stack
Iterate_DebugPops ==
  LET r == LoopBody(stack, idx, tokens[idx + 1])
      shown == Emit(level, <<>>, DebugRecords(stack, tokens[idx + 1]))
  IN  /\ stack' = IF shown # <<>> /\ r.exc = NoExc
                  THEN SubSeq(r.stack, 1, Len(r.stack) - 1)
                  ELSE r.stack
      /\ IF r.exc = NoExc
         THEN idx' = idx + 1 /\ pc' = "loop" /\ outcome' = outcome
         ELSE idx' = idx /\ pc' = "done" /\ outcome' = Raised(r.exc)
      /\ log' = log \o shown
      /\ UNCHANGED <<tokens, callerVars, fileVars, concVars, earlier>>

\* the effect of one loop iteration on the state of the call
Iterate ==
  LET r == LoopBody(stack, idx, tokens[idx + 1])
  IN  /\ stack' = r.stack
      /\ IF r.exc = NoExc
         THEN idx' = idx + 1 /\ pc' = "loop" /\ outcome' = outcome
         ELSE idx' = idx /\ pc' = "done" /\ outcome' = Raised(r.exc)
      /\ log' = Emit(level, log, DebugRecords(stack, tokens[idx + 1]))
      /\ UNCHANGED <<tokens, callerVars, fileVars, concVars, earlier>>

SkipEmpty ==
  /\ InLoop
  /\ IsEmptyToken(tokens[idx + 1])
  /\ Iterate

Push ==
  /\ InLoop
  /\ ~IsEmptyToken(tokens[idx + 1])
  /\ is_number(tokens[idx + 1])
  /\ Iterate

Operate ==
  /\ InLoop
  /\ ~IsEmptyToken(tokens[idx + 1])
  /\ ~is_number(tokens[idx + 1])
  /\ tokens[idx + 1] \in OPERATORS
  /\ Iterate

RaiseInvalidToken ==
  /\ InLoop
  /\ ~IsEmptyToken(tokens[idx + 1])
  /\ ~is_number(tokens[idx + 1])
  /\ tokens[idx + 1] \notin OPERATORS
  /\ Iterate

Finish ==
  /\ pc = "loop"
  /\ idx = Len(tokens)
  /\ outcome' = Finalize(stack)
  /\ pc' = "done"
  /\ UNCHANGED <<tokens, idx, stack, callerVars, fileVars, concVars, logVars>>

Next == SkipEmpty \/ Push \/ Operate \/ RaiseInvalidToken \/ Finish

Spec == Init /\ [][Next]_vars

(* ---------------------- one call, any third token ----------------------- *)

TokenChars == {"+", "-", "*", "/", "3", ".", "_", " ", "&", "i", "n", "f"}

\* two literals, then a token made of any characters
InitClassify ==
  /\ tokens \in { << <<"2">>, <<"3">>, t >> : t \in SeqsUpTo(TokenChars, MaxTokenLen) }
  /\ idx = 0
  /\ stack = <<>>
  /\ pc = "loop"
  /\ outcome = Running
  /\ CallerIdle
  /\ FileIdle
  /\ NoWorkers
  /\ LogIdle

SpecClassify == InitClassify /\ [][Next]_vars

(* ------------------------ one call, run to its end ---------------------- *)

LiveAlphabet == { <<>>, <<"0">>, <<"2">>, <<"/">>, <<"&">> }

\* before the call
InitLive ==
  /\ tokens = <<>>
  /\ idx = 0
  /\ stack = <<>>
  /\ pc = "idle"
  /\ outcome = Running
  /\ CallerIdle
  /\ FileIdle
  /\ NoWorkers
  /\ LogIdle

\* evaluate_rpn(ts) is called
Enter ==
  /\ pc = "idle"
  /\ \E ts \in SeqsUpTo(LiveAlphabet, MaxLiveLen) :
       /\ tokens' = ts
       /\ idx' = 0
       /\ stack' = <<>>
       /\ pc' = "loop"
       /\ outcome' = Running
  /\ UNCHANGED <<callerVars, fileVars, concVars, logVars>>

NextLive == Enter \/ Next

\* the loop and the final checks are straight-line code: a call that can
\* take a step takes it
SpecLive == InitLive /\ [][NextLive]_vars /\ WF_vars(NextLive)

(* ------------------------ one call after another ------------------------ *)

RepeatAlphabet == CoreAlphabet \cup { <<>>, <<"&">> }

\* evaluations made between two evaluations of the target: a success, and
\* failures that leave zero, one and two values on the abandoned stack
BetweenSeqs ==
  { << <<"2">> >>,
    << <<"3">>, <<"0">>, <<"/">> >>,
    << <<"3">>, <<"-">> >>,
    << <<"2">>, <<"3">> >> }

InitRepeat ==
  /\ tokens \in SeqsUpTo(RepeatAlphabet, MaxRepeatLen)
  /\ idx = 0
  /\ stack = <<>>
  /\ pc = "loop"
  /\ outcome = Running
  /\ target = tokens
  /\ first = Running
  /\ calls = 1
  /\ between = {}
  /\ FileIdle
  /\ NoWorkers
  /\ LogIdle

\* the stack of a call is not the stack of the call before
Call_SharedStack(ts) ==
  /\ tokens' = ts
  /\ idx' = 0
  /\ stack' = stack
  /\ pc' = "loop"
  /\ outcome' = Running

\* entry of evaluate_rpn(ts): a new, empty stack
Call(ts) ==
  /\ tokens' = ts
  /\ idx' = 0
  /\ stack' = <<>>
  /\ pc' = "loop"
  /\ outcome' = Running

\* the caller evaluates the target once more
EvaluateAgain ==
  /\ pc = "done"
  /\ calls < MaxCalls
  /\ Call(target)
  /\ first' = IF calls = 1 THEN outcome ELSE first
  /\ between' = IF tokens = target THEN between
                ELSE between \cup {outcome.status}
  /\ calls' = calls + 1
  /\ UNCHANGED <<target, fileVars, concVars, logVars>>

\* the caller evaluates some other sequence
EvaluateOther ==
  /\ pc = "done"
  /\ calls < MaxCalls
  /\ \E ts \in BetweenSeqs : Call(ts)
  /\ first' = IF calls = 1 THEN outcome ELSE first
  /\ between' = IF tokens = target THEN between
                ELSE between \cup {outcome.status}
  /\ calls' = calls + 1
  /\ UNCHANGED <<target, fileVars, concVars, logVars>>

NextRepeat == Next \/ EvaluateAgain \/ EvaluateOther

SpecRepeat == InitRepeat /\ [][NextRepeat]_vars

(* --------------------------- calls side by side ------------------------- *)

\* a success, and one failure of each kind
ConcSeqs ==
  { << <<"2">>, <<"3">>, <<"-">> >>,
    << <<"3">>, <<"2">>, <<"/">> >>,
    << <<"2">>, <<"0">>, <<"/">> >>,
    << <<"3">>, <<"-">> >>,
    << <<"2">>, <<"3">> >>,
    << <<"2">>, <<"&">> >>,
    << >> }

\* entry of evaluate_rpn(ts) in a worker: the frame of the call, with its own
\* new list
WorkerCall(ts) ==
  [tokens |-> ts, idx |-> 0, stack |-> <<>>, pc |-> "loop", outcome |-> Running]

InitConc ==
  /\ workers \in [1..NumWorkers -> {WorkerCall(ts) : ts \in ConcSeqs}]
  /\ tokens = <<>> /\ idx = 0 /\ stack = <<>> /\ pc = "idle" /\ outcome = Running
  /\ CallerIdle
  /\ FileIdle
  /\ LogIdle

\* one list shared by the calls: what a call pushes or pops, every call sees
WorkerStep_SharedStack(ws, w) ==
  LET c == ws[w]
      r == LoopBody(c.stack, c.idx, c.tokens[c.idx + 1])
  IN  [v \in DOMAIN ws |->
         IF v # w THEN [ws[v] EXCEPT !.stack = r.stack]
         ELSE IF r.exc = NoExc
         THEN [c EXCEPT !.stack = r.stack, !.idx = c.idx + 1]
         ELSE [c EXCEPT !.stack = r.stack, !.pc = "done",
                        !.outcome = Raised(r.exc)]]

\* one loop iteration of the call of worker w, on the list of its own frame
WorkerStep(ws, w) ==
  LET c == ws[w]
      r == LoopBody(c.stack, c.idx, c.tokens[c.idx + 1])
  IN  [ws EXCEPT ![w] =
         IF r.exc = NoExc
         THEN [c EXCEPT !.stack = r.stack, !.idx = c.idx + 1]
         ELSE [c EXCEPT !.stack = r.stack, !.pc = "done",
                        !.outcome = Raised(r.exc)]]

\* the checks after the loop in the call of worker w
WorkerEnd(ws, w) ==
  [ws EXCEPT ![w] = [ws[w] EXCEPT !.pc = "done",
                                  !.outcome = Finalize(ws[w].stack)]]

\* some worker runs one iteration of its loop
WorkerIterate ==
  /\ \E w \in DOMAIN workers :
       /\ workers[w].pc = "loop"
       /\ workers[w].idx < Len(workers[w].tokens)
       /\ workers' = WorkerStep(workers, w)
       /\ log' = Emit(level, log,
                      DebugRecords(workers[w].stack,
                                   workers[w].tokens[workers[w].idx + 1]))
  /\ UNCHANGED <<evalVars, callerVars, fileVars, earlier>>

\* some worker leaves its loop and returns or raises
WorkerFinish ==
  /\ \E w \in DOMAIN workers :
       /\ workers[w].pc = "loop"
       /\ workers[w].idx = Len(workers[w].tokens)
       /\ workers' = WorkerEnd(workers, w)
  /\ UNCHANGED <<evalVars, callerVars, fileVars, logVars>>

NextConc == WorkerIterate \/ WorkerFinish

SpecConc == InitConc /\ [][NextConc]_vars

(* ------------------------------ process_file --------------------------- *)

\* str.split(): the maximal runs of non-whitespace characters
RECURSIVE SplitFrom(_, _, _)
SplitFrom(s, cur, acc) ==
  IF s = <<>> THEN (IF cur = <<>> THEN acc ELSE Append(acc, cur))
  ELSE IF Head(s) \in Whitespace
       THEN SplitFrom(Tail(s), <<>>, IF cur = <<>> THEN acc ELSE Append(acc, cur))
       ELSE SplitFrom(Tail(s), Append(cur, Head(s)), acc)

Split(s) == SplitFrom(s, <<>>, <<>>)

\* raw lines as the file iterator yields them, newline included
FileLines ==
  { <<"\n">>,
    <<" ", "\t", "\n">>,
    <<"#", " ", "2", " ", "3", " ", "+", "\n">>,
    <<" ", " ", "#", "x", "\n">>,
    <<"3", " ", "2", " ", "-", "\n">>,
    <<"3", " ", " ", "2", " ", "/", "\n">>,
    <<"2", " ", "0", " ", "/", "\n">>,
    <<"3", " ", "+", "\n">>,
    <<"2", " ", "&", "\n">>,
    <<"2", " ", "3", "\n">> }

\* (i, res)
ResultEntry(i, v) ==
  [line |-> i, error |-> FALSE, value |-> v, msgline |-> 0, msg |-> Str(NoExc)]

\* (i, f"Erreur ligne {i}: {e}")
ErrorEntry(i, e) ==
  [line |-> i, error |-> TRUE, value |-> NaN, msgline |-> i, msg |-> Str(e)]

\* `not line or line.startswith('#')`
IsIgnored(line) == IF line = <<>> THEN TRUE ELSE line[1] = "#"

InitFile ==
  /\ file \in SeqsUpTo(FileLines, MaxLines)
  /\ exists \in BOOLEAN
  /\ verbose \in BOOLEAN
  /\ level = "INFO"
  /\ lineno = 0
  /\ results = <<>>
  /\ pf = "start"
  /\ tokens = <<>> /\ idx = 0 /\ stack = <<>> /\ pc = "idle" /\ outcome = Running
  /\ CallerIdle
  /\ NoWorkers
  /\ LogIdle

\* an error of the line ends the run
HandleLine_Stop(res, i, line) ==
  LET o == evaluate_rpn(Split(line))
  IN  IF o.status = "returned"
      THEN [results |-> Append(res, ResultEntry(i, o.value)), exc |-> NoExc]
      ELSE [results |-> res, exc |-> o.exc]

\* the body of the loop for a line that is kept: split, evaluate, record the
\* value or the message of an RPNError; any other exception propagates
HandleLine(res, i, line) ==
  LET o == evaluate_rpn(Split(line))
  IN  IF o.status = "returned"
      THEN [results |-> Append(res, ResultEntry(i, o.value)), exc |-> NoExc]
      ELSE IF IsSubclass(o.exc.cls, "RPNError")
      THEN [results |-> Append(res, ErrorEntry(i, o.exc)), exc |-> NoExc]
      ELSE [results |-> res, exc |-> o.exc]

\* what the try statement logs once the evaluation of a line has ended: the
\* value at INFO or the message of the RPNError at ERROR
OutcomeRecords(i, line, o) ==
  IF o.status = "returned"
  THEN << LogRecord("INFO", "Ligne", line, <<o.value>>, <<>>, i, NoExc) >>
  ELSE IF IsSubclass(o.exc.cls, "RPNError")
  THEN << LogRecord("ERROR", "Erreur ligne", <<>>, <<>>, <<>>, i, o.exc) >>
  ELSE <<>>

\* what the loop body logs for a line that is kept: the debug records of the
\* evaluation, then the record of its outcome
LineRecords(i, line) ==
  DebugTrace(Split(line)) \o OutcomeRecords(i, line, evaluate_rpn(Split(line)))

\* results = [], the level set when verbose, the file opened
Open ==
  /\ pf = "start"
  /\ exists
  /\ results' = <<>>
  /\ level' = IF verbose THEN "DEBUG" ELSE level
  /\ lineno' = 0
  /\ pf' = "reading"
  /\ UNCHANGED <<file, exists, verbose, evalVars, callerVars, concVars, logVars>>

\* open() raises FileNotFoundError, which is logged and raised again
OpenMissing ==
  /\ pf = "start"
  /\ ~exists
  /\ results' = <<>>
  /\ level' = IF verbose THEN "DEBUG" ELSE level
  /\ pf' = "raised"
  /\ log' = Emit(level', log,
                 << LogRecord("ERROR", "Fichier introuvable", <<>>, <<>>, <<>>,
                              0, NoExc) >>)
  /\ UNCHANGED <<file, exists, verbose, lineno, evalVars, callerVars, concVars,
                 earlier>>

\* a line that is empty after strip() or starts with '#': continue
SkipLine ==
  /\ pf = "reading"
  /\ lineno < Len(file)
  /\ IsIgnored(Strip(file[lineno + 1]))
  /\ lineno' = lineno + 1
  /\ UNCHANGED <<file, exists, verbose, level, results, pf, evalVars, callerVars,
                 concVars, logVars>>

\* any other line is split, evaluated and recorded
EvalLine ==
  /\ pf = "reading"
  /\ lineno < Len(file)
  /\ LET line == Strip(file[lineno + 1])
         r == HandleLine(results, lineno + 1, line)
     IN  /\ ~IsIgnored(line)
         /\ results' = r.results
         /\ pf' = IF r.exc = NoExc THEN "reading" ELSE "raised"
         /\ log' = Emit(level, log, LineRecords(lineno + 1, line))
  /\ lineno' = lineno + 1
  /\ UNCHANGED <<file, exists, verbose, level, evalVars, callerVars, concVars,
                 earlier>>

\* end of file: return results
ReturnResults ==
  /\ pf = "reading"
  /\ lineno = Len(file)
  /\ pf' = "returned"
  /\ UNCHANGED <<file, exists, verbose, level, lineno, results, evalVars,
                 callerVars, concVars, logVars>>

NextFile == Open \/ OpenMissing \/ SkipLine \/ EvalLine \/ ReturnResults

SpecFile == InitFile /\ [][NextFile]_vars

(* ------------ process_file, each evaluation token by token ------------- *)

LogLines ==
  { <<"\n">>,
    <<"3", " ", "2", " ", "-", "\n">>,
    <<"2", " ", "0", " ", "/", "\n">>,
    <<"2", " ", "&", "\n">> }

InitLog ==
  /\ file \in SeqsUpTo(LogLines, MaxLogLines)
  /\ exists \in BOOLEAN
  /\ verbose \in BOOLEAN
  /\ level = "INFO"
  /\ lineno = 0
  /\ results = <<>>
  /\ pf = "start"
  /\ tokens = <<>> /\ idx = 0 /\ stack = <<>> /\ pc = "idle" /\ outcome = Running
  /\ CallerIdle
  /\ NoWorkers
  /\ LogIdle

\* the try statement around the call, given how the call has ended: the value
\* or the message of an RPNError is recorded, any other exception propagates
RecordOutcome(res, i, o) ==
  IF o.status = "returned"
  THEN [results |-> Append(res, ResultEntry(i, o.value)), exc |-> NoExc]
  ELSE IF IsSubclass(o.exc.cls, "RPNError")
  THEN [results |-> Append(res, ErrorEntry(i, o.exc)), exc |-> NoExc]
  ELSE [results |-> res, exc |-> o.exc]

\* a line that is kept is split and evaluate_rpn is entered
BeginLine ==
  /\ pf = "reading"
  /\ lineno < Len(file)
  /\ LET line == Strip(file[lineno + 1])
     IN  /\ ~IsIgnored(line)
         /\ Call(Split(line))
  /\ pf' = "evaluating"
  /\ UNCHANGED <<file, exists, verbose, level, lineno, results, callerVars,
                 concVars, logVars>>

\* the call has returned or raised: its outcome is recorded and logged
EndLine ==
  /\ pf = "evaluating"
  /\ pc = "done"
  /\ LET line == Strip(file[lineno + 1])
         r == RecordOutcome(results, lineno + 1, outcome)
     IN  /\ results' = r.results
         /\ pf' = IF r.exc = NoExc THEN "reading" ELSE "raised"
         /\ log' = Emit(level, log, OutcomeRecords(lineno + 1, line, outcome))
  /\ lineno' = lineno + 1
  /\ pc' = "idle"
  /\ UNCHANGED <<file, exists, verbose, level, tokens, idx, stack, outcome,
                 callerVars, concVars, earlier>>

\* process_file is called once more on the same path, with either flag; the
\* logger keeps the level the calls before have left
ProcessAgain ==
  /\ pf = "returned"
  /\ Len(earlier) < MaxRuns - 1
  /\ earlier' = Append(earlier, results)
  /\ verbose' \in BOOLEAN
  /\ pf' = "start"
  /\ UNCHANGED <<file, exists, level, lineno, results, evalVars, callerVars,
                 concVars, log>>

\* the tokens of a line come from split() and are never empty
NextLog ==
  \/ Open \/ OpenMissing \/ SkipLine \/ BeginLine
  \/ Push \/ Operate \/ RaiseInvalidToken \/ Finish
  \/ EndLine \/ ReturnResults \/ ProcessAgain

SpecLog == InitLog /\ [][NextLog]_vars

(* ------------------- reference: recursive postfix value ------------------ *)

IsLiteral(t) == t # <<>> /\ is_number(t)

\* N literals, N-1 operators, every operator preceded by enough operands
RECURSIVE BalancedFrom(_, _, _)
BalancedFrom(ts, k, depth) ==
  IF k > Len(ts) THEN depth = 1
  ELSE IF IsLiteral(ts[k]) THEN BalancedFrom(ts, k + 1, depth + 1)
  ELSE IF ts[k] \in OPERATORS THEN depth >= 2 /\ BalancedFrom(ts, k + 1, depth - 1)
  ELSE FALSE

WellPlaced(ts) == BalancedFrom(ts, 1, 0)

\* first index of the complete sub-expression that ends at index k
RECURSIVE OperandStart(_, _, _)
OperandStart(ts, k, need) ==
  IF k = 0 THEN 0
  ELSE LET n2 == IF IsLiteral(ts[k]) THEN need - 1 ELSE need + 1
       IN  IF n2 = 0 THEN k ELSE OperandStart(ts, k - 1, n2)

Arith(op, l, r) ==
  CASE op = <<"+">> -> FloatAdd(l, r)
    [] op = <<"-">> -> FloatAdd(l, FloatNeg(r))
    [] op = <<"*">> -> FloatMul(l, r)
    [] op = <<"/">> -> FloatDiv(l, r)

\* value of a well-placed sequence as the expression tree it denotes:
\* (left op right), where right is the sub-expression just before the operator
RECURSIVE RefValue(_)
RefValue(ts) ==
  IF Len(ts) = 1 THEN [defined |-> TRUE, v |-> float(ts[1])]
  ELSE LET n == Len(ts)
           k == OperandStart(ts, n - 1, 1)
           l == RefValue(SubSeq(ts, 1, k - 1))
           r == RefValue(SubSeq(ts, k, n - 1))
       IN  IF ~l.defined \/ ~r.defined \/ (ts[n] = <<"/">> /\ IsZero(r.v))
           THEN [defined |-> FALSE, v |-> NaN]
           ELSE [defined |-> TRUE, v |-> Arith(ts[n], l.v, r.v)]

WellFormed(ts) == WellPlaced(ts) /\ RefValue(ts).defined

Num(k) == [n |-> k, d |-> 1]

(* -------------------------------- claims -------------------------------- *)

\* examples of _run_tests and of the specification
Examples ==
  /\ evaluate_rpn(<< <<"4">>, <<"7">>, <<"+">>, <<"3">>, <<"*">> >>)
        = Returned(Num(33))
  /\ evaluate_rpn(<< <<"3">>, <<"4">>, <<"7">>, <<"+">>, <<"*">> >>)
        = Returned(Num(33))
  /\ evaluate_rpn(<< <<"2">>, <<"1", "0">>, <<"4">>, <<"+">>, <<"-">> >>)
        = Returned(Num(-12))

\* C1: every well-formed RPN sequence (N literals, N-1 well-placed binary
\* operators, no division by zero) evaluates successfully to the value of the
\* expression tree it denotes, each operator combining (left op right).
C1_WellFormedValue ==
  /\ (pc = "done" /\ WellFormed(tokens))
        => outcome = Returned(RefValue(tokens).v)
  /\ Examples

\* 3 3 2 - / : a nested right operand, result 3 / (3 - 2) = 3
C1_Witness ==
  /\ pc = "done"
  /\ tokens = << <<"3">>, <<"3">>, <<"2">>, <<"-">>, <<"/">> >>
  /\ WellFormed(tokens)
  /\ outcome = Returned(Num(3))

\* C2: once every token has been consumed without an error the outcome is
\* decided by the final stack depth alone: 0 fails as an empty expression,
\* more than 1 fails as malformed carrying that depth, 1 returns the single
\* value; a value is returned in no other situation.
C2_FinalDepth ==
  pc = "done" =>
    /\ (idx = Len(tokens) /\ Len(stack) = 0)
          => outcome = Raised(EmptyExpressionError)
    /\ (idx = Len(tokens) /\ Len(stack) > 1)
          => /\ outcome.status = "raised"
             /\ outcome.exc.text = "Expression mal formee"
             /\ outcome.exc.count = Len(stack)
    /\ (idx = Len(tokens) /\ Len(stack) = 1) => outcome = Returned(stack[1])
    /\ outcome.status = "returned" => (idx = Len(tokens) /\ Len(stack) = 1)
    /\ idx < Len(tokens) => outcome.status = "raised"

\* 2 0 2 + : two values left over
C2_Witness ==
  /\ pc = "done"
  /\ tokens = << <<"2">>, <<"0">>, <<"2">>, <<"+">> >>
  /\ idx = Len(tokens)
  /\ outcome.exc.count = 2

\* C3: an operator reached with fewer than two values on the stack fails at
\* that token with InsufficientOperands carrying the operator and the token's
\* position, and leaves the stack as it was before the token.
C3_InsufficientOperands ==
  [][(InLoop /\ tokens[idx + 1] \in OPERATORS /\ Len(stack) < 2)
       => /\ pc' = "done"
          /\ outcome' = Raised(InsufficientOperandsError(tokens[idx + 1], idx))
          /\ outcome'.exc.cls = "InsufficientOperandsError"
          /\ stack' = stack
          /\ idx' = idx]_vars

\* 2 - : the operator at position 1 finds one value
C3_Witness ==
  /\ pc = "done"
  /\ outcome.exc.cls = "InsufficientOperandsError"
  /\ outcome.exc.position = 1
  /\ Len(stack) = 1

\* C4: '/' reached with at least two values and a zero on top fails with
\* DivisionByZero, both operands removed and nothing pushed back, and the
\* evaluation stays in that failure whatever tokens follow; with a non-zero
\* top value the division does not fail.
C4_DivisionByZero ==
  /\ [][(InLoop /\ tokens[idx + 1] = <<"/">> /\ Len(stack) >= 2)
          => IF IsZero(stack[Len(stack)])
             THEN /\ pc' = "done"
                  /\ outcome' = Raised(DivisionByZeroError)
                  /\ outcome'.exc.cls = "DivisionByZeroError"
                  /\ stack' = SubSeq(stack, 1, Len(stack) - 2)
                  /\ idx' = idx
             ELSE /\ pc' = "loop"
                  /\ outcome'.status = "running"
                  /\ Len(stack') = Len(stack) - 1
                  /\ stack'[Len(stack')]
                       = FloatDiv(stack[Len(stack) - 1], stack[Len(stack)])
                  /\ idx' = idx + 1]_vars
  /\ [][outcome.exc.cls = "DivisionByZeroError" => UNCHANGED vars]_vars

\* 3 2 0 / <one more token> : the failure leaves <<3>> and ignores the rest
C4_Witness ==
  /\ pc = "done"
  /\ outcome = Raised(DivisionByZeroError)
  /\ Len(tokens) = 5 /\ idx = 3
  /\ stack = <<Num(3)>>

IsInvalidToken(t) ==
  /\ t # <<>>
  /\ ~is_number(t)
  /\ t \notin {<<"+">>, <<"-">>, <<"*">>, <<"/">>}

\* C5: a non-empty token that is neither a number nor one of + - * / fails at
\* that token with InvalidToken carrying the token text and its zero-based
\* index in the sequence as given, empty tokens before it included.
C5_InvalidToken ==
  /\ [][(InLoop /\ IsInvalidToken(tokens[idx + 1]))
          => /\ pc' = "done"
             /\ outcome'.status = "raised"
             /\ outcome'.exc.cls = "InvalidTokenError"
             /\ outcome'.exc.token = tokens[idx + 1]
             /\ UNCHANGED <<stack, idx>>]_vars
  /\ [](outcome.exc.cls = "InvalidTokenError"
          => /\ outcome.exc.position \in 0..(Len(tokens) - 1)
             /\ tokens[outcome.exc.position + 1] = outcome.exc.token
             /\ IsInvalidToken(outcome.exc.token)
             /\ \A k \in 1..outcome.exc.position : ~IsInvalidToken(tokens[k]))

\* '' 2 & : the empty token counts, the position is 2
C5_Witness ==
  /\ pc = "done"
  /\ tokens = << <<>>, <<"2">>, <<"&">> >>
  /\ outcome = Raised(InvalidTokenError(<<"&">>, 2))

TokenErrorTexts ==
  {"Token invalide", "Operateur sans operandes suffisants", "Division par zero"}

\* processing the first k tokens of ts ends in an error raised at a token
FailsWithin(ts, k) ==
  LET o == evaluate_rpn(SubSeq(ts, 1, k))
  IN  o.status = "raised" /\ o.exc.text \in TokenErrorTexts

\* C6: errors are terminal and the first one wins: when the scan first hits
\* an error at index i the call ends in exactly that error, nothing after
\* index i is processed, and the outcome is that of the tokens up to i alone
\* (so the tokens after i, whatever they are, do not matter).
C6_FirstErrorWins ==
  /\ [](pc = "done" =>
          \A k \in 1..Len(tokens) :
            (FailsWithin(tokens, k) /\ \A j \in 1..(k - 1) : ~FailsWithin(tokens, j))
              => /\ idx = k - 1
                 /\ outcome = evaluate_rpn(SubSeq(tokens, 1, k))
                 /\ outcome.status = "raised"
                 /\ outcome.exc.text \in TokenErrorTexts)
  /\ [][outcome.status = "raised" => UNCHANGED vars]_vars

\* 2 & / 0 : the invalid token at index 1 wins over the later operator
C6_Witness ==
  /\ pc = "done"
  /\ tokens = << <<"2">>, <<"&">>, <<"/">>, <<"0">> >>
  /\ idx = 1
  /\ outcome = Raised(InvalidTokenError(<<"&">>, 1))

\* the raise site of a failure, read from the fixed text of its message
Kind(e) ==
  CASE e.text = "Token invalide" -> "InvalidToken"
    [] e.text = "Operateur sans operandes suffisants" -> "InsufficientOperands"
    [] e.text = "Division par zero" -> "DivisionByZero"
    [] e.text = "Expression vide ou resultat absent" -> "EmptyExpression"
    [] e.text = "Expression mal formee" -> "MalformedExpression"
    [] OTHER -> "other"

Kinds ==
  {"InvalidToken", "InsufficientOperands", "DivisionByZero",
   "EmptyExpression", "MalformedExpression"}

C8_SameOutcomeAgain ==
  (pc = "done" /\ calls > 1 /\ tokens = target) => outcome = first

\* 3 2 - evaluated, then a successful and a failing evaluation, then again
C8_Witness ==
  /\ pc = "done"
  /\ calls = 4
  /\ tokens = target
  /\ target = << <<"3">>, <<"2">>, <<"-">> >>
  /\ between = {"returned", "raised"}
  /\ outcome = Returned(Num(1))
  /\ first = outcome

RECURSIVE WithoutEmpty(_)
WithoutEmpty(ts) ==
  IF ts = <<>> THEN <<>>
  ELSE IF Head(ts) = <<>> THEN WithoutEmpty(Tail(ts))
  ELSE <<Head(ts)>> \o WithoutEmpty(Tail(ts))

\* C9: empty-string tokens have no effect: a sequence evaluates to the same
\* value, or fails with the same kind of error, as the sequence without its
\* empty tokens.
C9_EmptyTokens ==
  pc = "done" =>
    LET o == evaluate_rpn(WithoutEmpty(tokens))
    IN  /\ o.status = outcome.status
        /\ o.value = outcome.value
        /\ o.exc.cls = outcome.exc.cls
        /\ o.exc.text = outcome.exc.text
        /\ o.exc.token = outcome.exc.token
        /\ o.exc.count = outcome.exc.count

\* 0 '' 2 - evaluates to -2 like 0 2 -
C9_Witness ==
  /\ pc = "done"
  /\ tokens = << <<"0">>, <<>>, <<"2">>, <<"-">> >>
  /\ outcome = Returned(Num(-2))

IsBlankLine(raw) == \A k \in 1..Len(raw) : raw[k] \in Whitespace

IsCommentLine(raw) ==
  \E k \in 1..Len(raw) :
    raw[k] = "#" /\ \A j \in 1..(k - 1) : raw[j] \in Whitespace

KeptLines(n) ==
  {i \in 1..n : ~IsBlankLine(file[i]) /\ ~IsCommentLine(file[i])}

\* C10: in process_file a failing line never ends the run: every line that
\* is neither blank nor a '#' comment yields exactly one entry, its 1-based
\* line number with the value or the error message of that line, blank and
\* comment lines yield none, the entries are in increasing line order, and
\* the run returns only after the last line, whatever failed before.
C10_EveryLineReported ==
  /\ exists => pf # "raised"
  /\ pf \in {"reading", "returned"} =>
       /\ {results[k].line : k \in 1..Len(results)} = KeptLines(lineno)
       /\ \A k \in 1..(Len(results) - 1) : results[k].line < results[k + 1].line
       /\ \A k \in 1..Len(results) :
            LET o == evaluate_rpn(Split(file[results[k].line]))
            IN  IF results[k].error
                THEN /\ o.status = "raised"
                     /\ results[k].msg = Str(o.exc)
                     /\ results[k].msgline = results[k].line
                ELSE o = Returned(results[k].value)
  /\ pf = "returned" => lineno = Len(file)

\* a failing first line, a comment, then 3 2 - : two entries, lines 1 and 3
C10_Witness ==
  /\ pf = "returned"
  /\ Len(file) = 3
  /\ IsCommentLine(file[2])
  /\ Len(results) = 2
  /\ results[1].line = 1 /\ results[1].error
  /\ results[1].msg.text = "Division par zero"
  /\ results[2] = ResultEntry(3, Num(1))

\* "10 4 -" is 6, not -6
OrderExample ==
  evaluate_rpn(<< <<"1", "0">>, <<"4">>, <<"-">> >>) = Returned(Num(6))

\* C11: an operator applied to a stack s ++ [a, b] (b on top, b non-zero for
\* '/') leaves exactly s ++ [a op b]: the value pushed later is the right
\* operand, the values below the two operands are untouched and the depth
\* drops by one.
C11_OperatorFrame ==
  /\ [][(InLoop /\ tokens[idx + 1] \in OPERATORS /\ Len(stack) >= 2
           /\ ~(tokens[idx + 1] = <<"/">> /\ IsZero(stack[Len(stack)])))
          => LET n == Len(stack)
             IN  /\ stack' = Append(SubSeq(stack, 1, n - 2),
                                    Arith(tokens[idx + 1], stack[n - 1], stack[n]))
                 /\ Len(stack') = n - 1
                 /\ pc' = "loop"
                 /\ idx' = idx + 1]_vars
  /\ [](OrderExample)

\* 3 0 2 - : the operator has just left <<3, 0 - 2>>
C11_Witness ==
  /\ pc = "loop"
  /\ idx = 4
  /\ SubSeq(tokens, 1, 4) = << <<"3">>, <<"0">>, <<"2">>, <<"-">> >>
  /\ stack = <<Num(3), Num(-2)>>

\* number of literals, and of operator tokens, among the first k tokens
RECURSIVE CountLiterals(_, _)
CountLiterals(ts, k) ==
  IF k = 0 THEN 0
  ELSE CountLiterals(ts, k - 1) + (IF IsLiteral(ts[k]) THEN 1 ELSE 0)

RECURSIVE CountOperators(_, _)
CountOperators(ts, k) ==
  IF k = 0 THEN 0
  ELSE CountOperators(ts, k - 1)
         + (IF ts[k] \in {<<"+">>, <<"-">>, <<"*">>, <<"/">>} THEN 1 ELSE 0)

\* C16: while an evaluation has not failed, the stack depth is the number of
\* numeric tokens processed minus the number of operator tokens processed,
\* never negative, and at least 1 right after an operator; so a value is
\* returned only for sequences with exactly one more numeric token than
\* operator tokens, and never for a sequence without a numeric token.
C16_StackDepth ==
  /\ outcome.status # "raised" =>
       /\ Len(stack) = CountLiterals(tokens, idx) - CountOperators(tokens, idx)
       /\ Len(stack) >= 0
       /\ (idx > 0 /\ tokens[idx] \in {<<"+">>, <<"-">>, <<"*">>, <<"/">>})
             => Len(stack) >= 1
  /\ outcome.status = "returned" =>
       /\ CountLiterals(tokens, Len(tokens))
            = CountOperators(tokens, Len(tokens)) + 1
       /\ CountLiterals(tokens, Len(tokens)) >= 1

\* 3 2 0 - / returned: three literals, two operators, depth 1
C16_Witness ==
  /\ pc = "done"
  /\ outcome.status = "returned"
  /\ Len(tokens) = 5
  /\ CountLiterals(tokens, 5) = 3
  /\ CountOperators(tokens, 5) = 2
  /\ Len(stack) = 1

\* C17: the operand count is checked before the divisor: '/' reached with
\* fewer than two values fails with InsufficientOperands even when the only
\* value is zero, so DivisionByZero is reported only from a stack that held
\* at least two values before the '/'.
C17_CountBeforeZero ==
  /\ [][(InLoop /\ tokens[idx + 1] = <<"/">> /\ Len(stack) < 2)
          => /\ outcome'.status = "raised"
             /\ outcome'.exc.cls = "InsufficientOperandsError"
             /\ outcome'.exc.cls # "DivisionByZeroError"]_vars
  /\ [][(outcome.status = "running" /\ outcome'.exc.cls = "DivisionByZeroError")
          => /\ InLoop
             /\ tokens[idx + 1] = <<"/">>
             /\ Len(stack) >= 2
             /\ IsZero(stack[Len(stack)])]_vars
  /\ [](evaluate_rpn(<< <<"0">>, <<"/">> >>)
          = Raised(InsufficientOperandsError(<<"/">>, 1)))

\* 0 / : one value, a zero, and the failure is InsufficientOperands
C17_Witness ==
  /\ pc = "done"
  /\ tokens = << <<"0">>, <<"/">> >>
  /\ stack = <<Num(0)>>
  /\ outcome = Raised(InsufficientOperandsError(<<"/">>, 1))

Symbols == {<<"+">>, <<"-">>, <<"*">>, <<"/">>}

\* what the step taken on a token did
Skipped == stack' = stack /\ pc' = "loop" /\ idx' = idx + 1

Pushed ==
  /\ Len(stack') = Len(stack) + 1
  /\ SubSeq(stack', 1, Len(stack)) = stack
  /\ pc' = "loop" /\ idx' = idx + 1

Operated ==
  \/ Len(stack') = Len(stack) - 1 /\ pc' = "loop" /\ idx' = idx + 1
  \/ outcome'.exc.cls \in {"InsufficientOperandsError", "DivisionByZeroError"}

Rejected == outcome'.exc.cls = "InvalidTokenError" /\ stack' = stack

SignedExamples ==
  /\ ParseFloat(<<"-", "3">>) = [ok |-> TRUE, v |-> Num(-3)]
  /\ ParseFloat(<<"+", "5">>) = [ok |-> TRUE, v |-> Num(5)]
  /\ \A t \in Symbols : ~is_number(t)

\* C12: token classification is total and exclusive, in the order empty,
\* number, operator, invalid: every token is handled in exactly one of the
\* four ways, a token that parses as a number is pushed and never applied as
\* an operator nor rejected (signed literals such as -3 and +5 included), and
\* the bare symbols + - * / are never numbers.
C12_Classification ==
  /\ [][InLoop =>
          LET t == tokens[idx + 1]
          IN  /\ Cardinality({k \in 1..4 :
                    CASE k = 1 -> Skipped [] k = 2 -> Pushed
                      [] k = 3 -> Operated [] k = 4 -> Rejected}) = 1
              /\ t = <<>> => Skipped
              /\ (t # <<>> /\ is_number(t))
                    => Pushed /\ stack'[Len(stack')] = float(t)
              /\ t \in Symbols => Operated /\ ~is_number(t)
              /\ (t # <<>> /\ ~is_number(t) /\ t \notin Symbols) => Rejected
              /\ t \in {<<"-", "3">>, <<"+", "3">>} => Pushed
              /\ t = <<"-", "3">> => stack'[Len(stack')] = Num(-3)]_vars
  /\ [](SignedExamples)

\* 2 3 -3 : the signed literal has been pushed, not applied as '-'
C12_Witness ==
  /\ pc = "loop"
  /\ idx = 3
  /\ tokens[3] = <<"-", "3">>
  /\ stack = <<Num(2), Num(3), Num(-3)>>

\* C13: every evaluation terminates: the tokens are visited in strictly
\* increasing index order, each at most once, and after at most len(tokens)
\* token steps and the final check the call is in exactly one terminal
\* outcome, a returned value or a raised error.
C13_Terminates ==
  /\ (pc = "loop") ~> (pc = "done")
  /\ [][pc = "loop" =>
          \/ pc' = "loop" /\ idx' = idx + 1 /\ idx' <= Len(tokens)
          \/ pc' = "done" /\ idx' = idx]_vars
  /\ [][pc = "done" => UNCHANGED vars]_vars
  /\ [](/\ idx \in 0..Len(tokens)
        /\ pc = "loop" => outcome.status = "running"
        /\ pc = "done" => outcome.status \in {"returned", "raised"}
        /\ outcome.status = "returned" => outcome.exc = NoExc
        /\ outcome.status = "raised" => outcome.exc # NoExc)

\* '' 2 0 : three token steps and the final check, ending in one error
C13_Witness ==
  /\ pc = "done"
  /\ tokens = << <<>>, <<"2">>, <<"0">> >>
  /\ idx = 3
  /\ outcome.status = "raised"
  /\ outcome.exc.count = 2

\* C14: calls of evaluate_rpn whose token steps are interleaved in any order
\* do not interfere: a step of one call changes the state of that call only,
\* at every moment each call is where it would be if it ran alone (run on
\* alone from its index and stack, it ends as the call does alone), and the
\* call that has ended has the outcome it has alone.
C14_NoInterference ==
  /\ [](\A w \in DOMAIN workers :
          LET c == workers[w]
          IN  IF c.pc = "done"
              THEN c.outcome = evaluate_rpn(c.tokens)
              ELSE /\ c.outcome = Running
                   /\ RunFrom(c.tokens, c.idx, c.stack) = evaluate_rpn(c.tokens))
  /\ [][\A w \in DOMAIN workers :
          workers'[w] # workers[w] =>
            \A v \in DOMAIN workers \ {w} : workers'[v] = workers[v]]_vars

C14_Witness ==
  /\ workers # <<>>
  /\ workers[1].tokens = << <<"2">>, <<"3">>, <<"-">> >>
  /\ workers[2].tokens = << <<"2">>, <<"0">>, <<"/">> >>
  /\ workers[1].outcome = Returned(Num(-1))
  /\ workers[2].outcome = Raised(DivisionByZeroError)
  /\ workers[2].stack = <<>>

\* the stack a call has after n token steps, and the results list after n
\* lines, as the code computes them with no logger at all
RECURSIVE StackAfter(_, _)
StackAfter(ts, n) ==
  IF n = 0 THEN <<>>
  ELSE LoopBody(StackAfter(ts, n - 1), n - 1, ts[n]).stack

RECURSIVE ResultsAfter(_, _)
ResultsAfter(f, n) ==
  IF n = 0 THEN <<>>
  ELSE LET line == Strip(f[n])
           res == ResultsAfter(f, n - 1)
       IN  IF IsIgnored(line) THEN res
           ELSE RecordOutcome(res, n, evaluate_rpn(Split(line))).results

\* C15: logging is a side channel.  Whatever the verbose flag of the call and
\* whatever level the logger was left at by the calls before, the stack after
\* every token step, the outcome of every evaluation and the results list
\* after every line are those computed with no logger; a call on the same
\* file returns the list every earlier call returned, and no level makes
\* process_file raise on a file that exists.
C15_LoggingSideChannel ==
  /\ pc = "loop" => stack = StackAfter(tokens, idx)
  /\ pc = "done" => outcome = evaluate_rpn(tokens)
  /\ pf \in {"reading", "evaluating", "returned"} =>
       results = ResultsAfter(file, lineno)
  /\ pf = "returned" => \A k \in DOMAIN earlier : earlier[k] = results
  /\ exists => pf # "raised"
  /\ level = "INFO" => \A k \in DOMAIN log : log[k].level # "DEBUG"

\* a call without the verbose flag that ran at the DEBUG level left by the
\* verbose call before it, and returned the same list
C15_Witness ==
  /\ pf = "returned"
  /\ ~verbose
  /\ level = "DEBUG"
  /\ Len(earlier) = 1
  /\ file = << <<"3", " ", "2", " ", "-", "\n">>,
               <<"2", " ", "0", " ", "/", "\n">> >>
  /\ results = << ResultEntry(1, Num(1)), ErrorEntry(2, DivisionByZeroError) >>
  /\ Len(SelectSeq(log, LAMBDA r : r.level = "DEBUG")) = 14

====
